---- MODULE Spec2Model ----
(***************************************************************************)
(* A model of the RAG documentation assistant's two storage components:    *)
(*   - LocalDocumentStorage (src/src/storage/document_storage.py), a       *)
(*     directory of files addressed by filename, and                       *)
(*   - ChromaDBManager (src/src/vector_db/chroma_manager.py), a thin       *)
(*     wrapper over a persistent vector collection.                        *)
(*                                                                         *)
(* Strings are sequences of one-character strings, so that pathlib's       *)
(* parsing of a filename is computed, character by character.  A path of   *)
(* the file system is a sequence of components, each a string.  Byte       *)
(* contents are sequences of small integers.                               *)
(***************************************************************************)
EXTENDS Naturals, Sequences, FiniteSets, TLC

VARIABLES
    files,       \* the file system's regular files: absolute path -> content
    latest,      \* history: base name -> content of the last successful save,
                 \*          removed by a successful delete
    op,          \* the last store operation called
    arg,         \* its filename and content arguments
    ret,         \* what it returned or raised: [tag, val]
    touched,     \* the path whose record it created/read/overwrote/removed
    prior,       \* history: files and latest as they were before it
    faulty,      \* whether the medium may fail an I/O request
    savedNames,  \* history: the filename strings saved since the store was empty
    wr,          \* a save in progress, step by step (SpecIO): the writer's position
    store,       \* the vector engine's persistent collections: name -> entries
    mgr,         \* the ChromaDBManager object: its collection_name, or "none"
    iop,         \* the last index operation called
    iret,        \* what it returned or raised
    iarg         \* what it was called with

storeVars == <<files, latest, op, arg, ret, touched, prior, faulty, savedNames, wr>>
indexVars == <<store, mgr, iop, iret, iarg>>
vars == <<files, latest, op, arg, ret, touched, prior, faulty, savedNames, wr,
          store, mgr, iop, iret, iarg>>

----------------------------------------------------------------------------
(* Bounds and input sets *)

\* most documents the directory holds at once
MaxDocs == 2
\* longest string, in characters, of the exhaustive filename strings
MaxLen == 3

Alphabet == {"/", ".", "a"}

\* every string over Alphabet of at most n characters
RECURSIVE Strings(_)
Strings(n) ==
    IF n = 0 THEN {<<>>}
    ELSE LET S == Strings(n - 1)
         IN  S \cup {Append(s, ch) : s \in {t \in S : Len(t) = n - 1}, ch \in Alphabet}

\* "../../etc/passwd" and "/etc/passwd"
Traversal == <<".", ".", "/", ".", ".", "/", "e", "t", "c", "/", "p", "a", "s", "s", "w", "d">>
Absolute == <<"/", "e", "t", "c", "/", "p", "a", "s", "s", "w", "d">>

\* the filenames the operations are called with
Filenames ==
    { <<>>,                                \* ""
      <<".">>,                             \* "."
      <<".", ".">>,                        \* ".."
      <<"/">>,                             \* "/"
      <<"a">>,                             \* "a"
      <<"b">>,                             \* "b"
      <<"/", "a">>,                        \* "/a"
      <<".", "/", "a">>,                   \* "./a"
      <<"a", "/">>,                        \* "a/"
      <<"a", "/", "b">>,                   \* "a/b"
      <<"a", "/", ".", ".">>,              \* "a/.."
      <<".", ".", "/", "b">>,              \* "../b"
      Traversal,
      Absolute }

\* every filename string: all strings over Alphabet up to MaxLen, and the call inputs
AnyFilename == Strings(MaxLen) \cup Filenames

\* byte contents: b"", one byte, two bytes
Contents == {<<>>, <<1>>, <<2, 3>>}

\* the directories of the file system: /, /etc, /srv and the store's root /srv/docs
etc == <<"e", "t", "c">>
srv == <<"s", "r", "v">>
docs == <<"d", "o", "c", "s">>
passwd == <<"p", "a", "s", "s", "w", "d">>
Dirs == {<<>>, <<etc>>, <<srv>>, <<srv, docs>>}
\* a file outside the root, there before the store is constructed: /etc/passwd
Secret == <<7>>
Outside == (<<etc, passwd>> :> Secret)

----------------------------------------------------------------------------
(* pathlib and the file system *)

Dot == <<".">>
DotDot == <<".", ".">>

\* str.split("/") of s[i..], cur being the component read so far
RECURSIVE SplitFrom(_, _, _)
SplitFrom(s, i, cur) ==
    IF i > Len(s) THEN <<cur>>
    ELSE IF s[i] = "/" THEN <<cur>> \o SplitFrom(s, i + 1, <<>>)
    ELSE SplitFrom(s, i + 1, Append(cur, s[i]))

\* PurePosixPath(s).parts without the anchor: empty and "." components are dropped,
\* ".." is kept
Parts(s) == SelectSeq(SplitFrom(s, 1, <<>>), LAMBDA c : c # <<>> /\ c # Dot)

is_absolute(s) == Len(s) > 0 /\ s[1] = "/"

\* Path(s).name: the last component, "" when there is none
PathName(s) ==
    LET p == Parts(s) IN IF p = <<>> THEN <<>> ELSE p[Len(p)]

\* Path(base_directory).resolve()
base_path == <<srv, docs>>

\* base / s for a pathlib path: an absolute s replaces base
Join(base, s) == IF is_absolute(s) THEN Parts(s) ELSE base \o Parts(s)

\* the kernel's walk of a path: ".." steps to the parent, "/.." is "/"
RECURSIVE Resolve(_)
Resolve(p) ==
    IF p = <<>> THEN <<>>
    ELSE LET r == Resolve(SubSeq(p, 1, Len(p) - 1))
             c == p[Len(p)]
         IN  IF c = DotDot THEN (IF r = <<>> THEN <<>> ELSE SubSeq(r, 1, Len(r) - 1))
             ELSE Append(r, c)

\* a bug that joins the filename as given
FullPathUnstripped(filename) == Join(base_path, filename)

\* LocalDocumentStorage._get_full_path
_get_full_path(filename) ==
    LET relative_filename == PathName(filename)
    IN  Join(base_path, relative_filename)

\* Path.is_file()
is_file(fs, p) == Resolve(p) \in DOMAIN fs

Parent(r) == SubSeq(r, 1, Len(r) - 1)

\* whether open(p, "wb") succeeds: p is no directory and its parent is one
CanOpenForWrite(fs, p) ==
    LET r == Resolve(p)
    IN  /\ r \notin Dirs
        /\ r # <<>>
        /\ Parent(r) \in Dirs

\* the file system with the file at r holding c
WithFile(fs, r, c) == [q \in DOMAIN fs \cup {r} |-> IF q = r THEN c ELSE fs[q]]
\* os.remove
WithoutFile(fs, r) == [q \in DOMAIN fs \ {r} |-> fs[q]]

\* the regular files directly inside the root, by name
RootNames(fs) == {p[Len(p)] : p \in {q \in DOMAIN fs : Len(q) > 0 /\ Parent(q) = base_path}}

InsideRoot(r) == Len(r) = Len(base_path) + 1 /\ Parent(r) = base_path

Ok(v) == [tag |-> "ok", val |-> v]
Raise(e) == [tag |-> e, val |-> <<>>]
NoArg == [filename |-> <<>>, content |-> <<>>]
NoPath == [kind |-> "none", path |-> <<>>]

----------------------------------------------------------------------------
(* LocalDocumentStorage: the results of the read operations in a file system fs *)

\* get_document_content: FileNotFoundError unless the path is a file
get_document_content(fs, filename) ==
    LET full_path == _get_full_path(filename)
    IN  IF ~is_file(fs, full_path) THEN Raise("FileNotFoundError")
        ELSE Ok(fs[Resolve(full_path)])

\* get_document_path: str(full_path), here the path's components
get_document_path(fs, filename) ==
    LET full_path == _get_full_path(filename)
    IN  IF ~is_file(fs, full_path) THEN Raise("FileNotFoundError")
        ELSE Ok(full_path)

\* a bug that tests Path.exists(), true of a directory too
ExistsAnyKind(fs, filename) ==
    Resolve(_get_full_path(filename)) \in DOMAIN fs \cup Dirs

\* document_exists
document_exists(fs, filename) == is_file(fs, _get_full_path(filename))

\* the orders in which iterdir() may yield the root's files
Listings(fs) ==
    LET names == RootNames(fs)
        n == Cardinality(names)
    IN  {s \in [1..n -> names] : \A i, j \in 1..n : i # j => s[i] # s[j]}

----------------------------------------------------------------------------
(* LocalDocumentStorage: the operations, each one call on a reliable or faulty
   medium *)

\* the model's cap on the directory's size
RoomFor(filename) ==
    \/ Resolve(_get_full_path(filename)) \in DOMAIN files
    \/ Cardinality(DOMAIN files) < MaxDocs + Cardinality(DOMAIN Outside)

\* a bug that opens the file for appending
SaveAppending(content, filename) ==
    LET full_path == _get_full_path(filename)
        r == Resolve(full_path)
    IN  /\ CanOpenForWrite(files, full_path)
        /\ files' = WithFile(files, r,
                             IF r \in DOMAIN files THEN files[r] \o content ELSE content)
        /\ latest' = [n \in DOMAIN latest \cup {PathName(filename)} |->
                         IF n = PathName(filename) THEN content ELSE latest[n]]
        /\ touched' = [kind |-> "overwritten", path |-> r]
        /\ ret' = Ok(filename)
        /\ op' = "save"
        /\ arg' = [filename |-> filename, content |-> content]
        /\ UNCHANGED faulty

\* save_document in one step: open(full_path, "wb"), write, close, return filename;
\* an error of open() is raised as IOError
save_document(content, filename) ==
    LET full_path == _get_full_path(filename)
        r == Resolve(full_path)
    IN  /\ op' = "save"
        /\ arg' = [filename |-> filename, content |-> content]
        /\ IF CanOpenForWrite(files, full_path)
           THEN /\ files' = WithFile(files, r, content)
                /\ latest' = [n \in DOMAIN latest \cup {PathName(filename)} |->
                                 IF n = PathName(filename) THEN content ELSE latest[n]]
                /\ touched' = [kind |-> IF r \in DOMAIN files THEN "overwritten"
                                        ELSE "created",
                               path |-> r]
                /\ ret' = Ok(filename)
           ELSE /\ ret' = Raise("IOError")
                /\ touched' = NoPath
                /\ UNCHANGED <<files, latest>>
        /\ UNCHANGED faulty

\* a call of get_document_content; on a faulty medium the read may raise IOError
GetContent(filename) ==
    /\ op' = "get_content"
    /\ arg' = [filename |-> filename, content |-> <<>>]
    /\ \E fails \in (IF faulty THEN BOOLEAN ELSE {FALSE}) :
         IF fails /\ document_exists(files, filename)
         THEN ret' = Raise("IOError") /\ touched' = NoPath
         ELSE /\ ret' = get_document_content(files, filename)
              /\ touched' = IF document_exists(files, filename)
                            THEN [kind |-> "read",
                                  path |-> Resolve(_get_full_path(filename))]
                            ELSE NoPath
    /\ UNCHANGED <<files, latest, faulty>>

\* a call of get_document_path
GetPath(filename) ==
    /\ op' = "get_path"
    /\ arg' = [filename |-> filename, content |-> <<>>]
    /\ ret' = get_document_path(files, filename)
    /\ touched' = NoPath
    /\ UNCHANGED <<files, latest, faulty>>

\* a call of list_documents
list_documents ==
    /\ op' = "list"
    /\ arg' = NoArg
    /\ \E s \in Listings(files) : ret' = Ok(s)
    /\ touched' = NoPath
    /\ UNCHANGED <<files, latest, faulty>>

\* a call of document_exists
Exists(filename) ==
    /\ op' = "exists"
    /\ arg' = [filename |-> filename, content |-> <<>>]
    /\ ret' = Ok(document_exists(files, filename))
    /\ touched' = NoPath
    /\ UNCHANGED <<files, latest, faulty>>

\* a bug that reports a removal that did not happen
DeleteKeeping(filename) ==
    /\ op' = "delete"
    /\ arg' = [filename |-> filename, content |-> <<>>]
    /\ ret' = Ok(is_file(files, _get_full_path(filename)))
    /\ touched' = NoPath
    /\ UNCHANGED <<files, latest, faulty>>

\* delete_document: os.remove when the path is a file; an OSError of os.remove is
\* printed and False returned
delete_document(filename) ==
    LET full_path == _get_full_path(filename)
        r == Resolve(full_path)
    IN  /\ op' = "delete"
        /\ arg' = [filename |-> filename, content |-> <<>>]
        /\ IF is_file(files, full_path)
           THEN \E fails \in (IF faulty THEN BOOLEAN ELSE {FALSE}) :
                  IF fails
                  THEN /\ ret' = Ok(FALSE)
                       /\ touched' = NoPath
                       /\ UNCHANGED <<files, latest>>
                  ELSE /\ files' = WithoutFile(files, r)
                       /\ latest' = [n \in DOMAIN latest \ {PathName(filename)} |->
                                        latest[n]]
                       /\ touched' = [kind |-> "removed", path |-> r]
                       /\ ret' = Ok(TRUE)
           ELSE /\ ret' = Ok(FALSE)
                /\ touched' = NoPath
                /\ UNCHANGED <<files, latest>>
        /\ UNCHANGED faulty

----------------------------------------------------------------------------
(* The store, one call at a time, on a reliable medium *)

\* LocalDocumentStorage(): the root exists and is empty
InitStore ==
    /\ files = Outside
    /\ latest = <<>>
    /\ op = "init"
    /\ arg = NoArg
    /\ ret = Ok(<<>>)
    /\ touched = NoPath
    /\ prior = [files |-> Outside, latest |-> <<>>]
    /\ savedNames = {}
    /\ wr = [pc |-> "idle"]

InitIndexIdle ==
    /\ store = <<>>
    /\ mgr = "none"
    /\ iop = "none"
    /\ iret = Ok(<<>>)
    /\ iarg = [lens |-> <<0, 0, 0>>]

Init == InitStore /\ faulty = FALSE /\ InitIndexIdle

\* a call on the store: the history of what it found, and what it leaves alone
StoreCallOnly ==
    /\ prior' = [files |-> files, latest |-> latest]
    /\ UNCHANGED <<savedNames, wr, store, mgr, iop, iret, iarg>>

Save ==
    \E c \in Contents, f \in Filenames :
        RoomFor(f) /\ save_document(c, f) /\ StoreCallOnly
Get == \E f \in Filenames : GetContent(f) /\ StoreCallOnly
Path == \E f \in Filenames : GetPath(f) /\ StoreCallOnly
List == list_documents /\ StoreCallOnly
Check == \E f \in Filenames : Exists(f) /\ StoreCallOnly
Delete == \E f \in Filenames : delete_document(f) /\ StoreCallOnly

Next ==
    \/ Save
    \/ Get
    \/ Path
    \/ List
    \/ Check
    \/ Delete

Spec == Init /\ [][Next]_vars

----------------------------------------------------------------------------
(* A fresh store that is only saved to and listed *)

\* a save that counts the filename strings saved so far
SaveFresh ==
    \E c \in Contents, f \in Filenames :
        /\ Cardinality(savedNames \cup {f}) <= MaxDocs
        /\ save_document(c, f)
        /\ savedNames' = IF ret'.tag = "ok" THEN savedNames \cup {f} ELSE savedNames
        /\ prior' = [files |-> files, latest |-> latest]
        /\ UNCHANGED <<wr, store, mgr, iop, iret, iarg>>

NextList ==
    \/ SaveFresh
    \/ List

SpecList == Init /\ [][NextList]_vars

----------------------------------------------------------------------------
(* One save at a time, step by step, beside readers, on a medium that may fail *)

Idle == [pc |-> "idle"]

\* open(full_path, "wb"): the file is created, or truncated to nothing
SaveOpen(content, filename) ==
    LET full_path == _get_full_path(filename)
        r == Resolve(full_path)
    IN  /\ wr.pc # "open"
        /\ RoomFor(filename)
        /\ op' = "save_open"
        /\ arg' = [filename |-> filename, content |-> content]
        /\ IF CanOpenForWrite(files, full_path)
           THEN /\ files' = WithFile(files, r, <<>>)
                /\ wr' = [pc |-> "open", filename |-> filename, content |-> content,
                          path |-> r, old |-> get_document_content(files, filename)]
                /\ ret' = Ok(<<>>)
                /\ touched' = [kind |-> IF r \in DOMAIN files THEN "overwritten"
                                        ELSE "created",
                               path |-> r]
           ELSE /\ ret' = Raise("IOError")
                /\ wr' = Idle
                /\ touched' = NoPath
                /\ UNCHANGED files
        /\ UNCHANGED <<latest, faulty>>

\* f.write(content) and the flush of close(): the bytes reach the file in one or
\* more writes
SaveWrite ==
    /\ wr.pc = "open"
    /\ Len(files[wr.path]) < Len(wr.content)
    /\ \E k \in (Len(files[wr.path]) + 1)..Len(wr.content) :
           files' = WithFile(files, wr.path, SubSeq(wr.content, 1, k))
    /\ op' = "save_write"
    /\ arg' = [filename |-> wr.filename, content |-> wr.content]
    /\ ret' = Ok(<<>>)
    /\ touched' = [kind |-> "overwritten", path |-> wr.path]
    /\ UNCHANGED <<latest, faulty, wr>>

\* the with block is left with everything written: return filename
SaveReturn ==
    /\ wr.pc = "open"
    /\ files[wr.path] = wr.content
    /\ op' = "save"
    /\ arg' = [filename |-> wr.filename, content |-> wr.content]
    /\ ret' = Ok(wr.filename)
    /\ wr' = Idle
    /\ touched' = NoPath
    /\ UNCHANGED <<files, latest, faulty>>

\* a write fails (the disk is full): the file is closed as it is and IOError raised
SaveFail ==
    /\ wr.pc = "open"
    /\ faulty
    /\ Len(files[wr.path]) < Len(wr.content)
    /\ op' = "save"
    /\ arg' = [filename |-> wr.filename, content |-> wr.content]
    /\ ret' = Raise("IOError")
    /\ wr' = [wr EXCEPT !.pc = "failed"]
    /\ touched' = NoPath
    /\ UNCHANGED <<files, latest, faulty>>

\* a step of SpecIO leaves the other histories and the index alone
StoreStepOnly == UNCHANGED <<prior, savedNames, store, mgr, iop, iret, iarg>>

\* the filenames of the calls that run beside each other: "a", "./a" and "b"
SharedFilenames == {<<"a">>, <<".", "/", "a">>, <<"b">>}

Open == \E c \in Contents, f \in SharedFilenames : SaveOpen(c, f) /\ StoreStepOnly
Write == SaveWrite /\ StoreStepOnly
Return == SaveReturn /\ StoreStepOnly
Fail == SaveFail /\ StoreStepOnly
Read == \E f \in SharedFilenames : GetContent(f) /\ UNCHANGED wr /\ StoreStepOnly
Probe == \E f \in SharedFilenames : Exists(f) /\ UNCHANGED wr /\ StoreStepOnly

InitIO == InitStore /\ faulty = TRUE /\ InitIndexIdle

NextIO ==
    \/ Open
    \/ Write
    \/ Return
    \/ Fail
    \/ Read
    \/ Probe

SpecIO == InitIO /\ [][NextIO]_vars

----------------------------------------------------------------------------
(* The vector engine behind ChromaDBManager: a persistent client's collections.
   An entry is [id, document, metadata]; a collection is the sequence of its
   entries in insertion order. *)

\* longest sequence add_documents is called with
MaxBatch == 2
\* largest n_results a query is called with, beside the default
MaxN == 2
\* query_documents' default n_results
DefaultNResults == 5

Texts == {0, 2}
Metas == {"finance", "HR"}
Ids == {"doc0", "doc1"}
CollectionNames == {"documentation_embeddings"}
QueryTexts == {<<>>, <<0>>, <<1>>, <<1, 2>>}
NResults == 0..MaxN \cup {DefaultNResults}


\* the distance of two texts' embeddings
Distance(q, t) == IF q > t THEN q - t ELSE t - q

\* get_or_create_collection
EngineGetOrCreate(st, name) ==
    IF name \in DOMAIN st THEN st
    ELSE [c \in DOMAIN st \cup {name} |-> IF c = name THEN <<>> ELSE st[c]]

EntryIds(coll) == {coll[i].id : i \in 1..Len(coll)}

\* one entry put into a collection: an entry of the same id is replaced where it is
Upsert(coll, e) ==
    IF e.id \in EntryIds(coll)
    THEN [i \in 1..Len(coll) |-> IF coll[i].id = e.id THEN e ELSE coll[i]]
    ELSE Append(coll, e)

RECURSIVE UpsertAll(_, _)
UpsertAll(coll, es) ==
    IF es = <<>> THEN coll ELSE UpsertAll(Upsert(coll, es[1]), Tail(es))

Distinct(ids) == \A i, j \in 1..Len(ids) : i # j => ids[i] # ids[j]

\* Collection.add: the outcomes [tag, coll] it may have. Unequal lengths are an
\* InvalidArgument; an id that is already there, or given twice, is overwritten
\* or the call rejected, as the engine chooses
EngineAdd(coll, documents, metadatas, ids) ==
    IF Len(documents) # Len(ids) \/ Len(metadatas) # Len(ids)
    THEN {[tag |-> "InvalidArgument", coll |-> coll]}
    ELSE LET es == [i \in 1..Len(ids) |->
                       [id |-> ids[i], document |-> documents[i],
                        metadata |-> metadatas[i]]]
             fresh == Distinct(ids) /\ EntryIds(coll) \cap EntryIds(es) = {}
         IN  {[tag |-> "ok", coll |-> UpsertAll(coll, es)]}
                 \cup (IF fresh THEN {}
                       ELSE {[tag |-> "InvalidArgument", coll |-> coll]})

\* the entries of coll by non-decreasing distance to q, ties in insertion order
RECURSIVE ByDistance(_, _)
ByDistance(coll, q) ==
    IF coll = <<>> THEN <<>>
    ELSE LET n == Len(coll)
             rest == ByDistance(SubSeq(coll, 1, n - 1), q)
             e == coll[n]
             k == Cardinality({i \in 1..Len(rest) :
                                  Distance(q, rest[i].document)
                                      <= Distance(q, e.document)})
         IN  SubSeq(rest, 1, k) \o <<e>> \o SubSeq(rest, k + 1, Len(rest))

Min(a, b) == IF a < b THEN a ELSE b

Match(e, q) ==
    [id |-> e.id, document |-> e.document, metadata |-> e.metadata,
     distance |-> Distance(q, e.document)]

\* Collection.query: per query text, the n_results nearest entries
EngineQuery(coll, query_texts, n_results) ==
    IF n_results <= 0 THEN Raise("InvalidArgument")
    ELSE Ok([j \in 1..Len(query_texts) |->
                LET sorted == ByDistance(coll, query_texts[j])
                IN  [i \in 1..Min(n_results, Len(sorted)) |->
                        Match(sorted[i], query_texts[j])]])

----------------------------------------------------------------------------
(* ChromaDBManager *)

NoCall == [lens |-> <<0, 0, 0>>]

\* a bug that creates the collection anew at every start
InitRecreating(collection_name) ==
    /\ store' = [c \in DOMAIN store \cup {collection_name} |->
                    IF c = collection_name THEN <<>> ELSE store[c]]
    /\ mgr' = collection_name
    /\ iop' = "open"
    /\ iret' = Ok(<<>>)
    /\ iarg' = NoCall

\* ChromaDBManager.__init__: a persistent client, then _get_or_create_collection
ManagerInit(collection_name) ==
    /\ store' = EngineGetOrCreate(store, collection_name)
    /\ mgr' = collection_name
    /\ iop' = "open"
    /\ iret' = Ok(<<>>)
    /\ iarg' = NoCall

\* what is kept of an add's arguments: the three lengths and, of an add of equal
\* lengths into an empty collection, the entries given and whether their ids differ
AddCalled(coll, documents, metadatas, ids) ==
    LET equal == Len(documents) = Len(ids) /\ Len(metadatas) = Len(ids)
        kept == equal /\ coll = <<>>
    IN  [lens |-> <<Len(documents), Len(metadatas), Len(ids)>>,
         intoEmpty |-> kept,
         distinct |-> kept /\ Distinct(ids),
         entries |-> IF kept
                     THEN {[id |-> ids[i], document |-> documents[i],
                            metadata |-> metadatas[i]] : i \in 1..Len(ids)}
                     ELSE {}]

\* a bug that adds as many entries as the shortest sequence has
AddZipped(documents, metadatas, ids) ==
    LET n == Min(Len(documents), Min(Len(metadatas), Len(ids)))
    IN  /\ mgr # "none"
        /\ \E r \in EngineAdd(store[mgr], SubSeq(documents, 1, n),
                              SubSeq(metadatas, 1, n), SubSeq(ids, 1, n)) :
               /\ store' = [store EXCEPT ![mgr] = r.coll]
               /\ iret' = [tag |-> r.tag, val |-> <<>>]
        /\ iop' = "add"
        /\ iarg' = AddCalled(store[mgr], documents, metadatas, ids)
        /\ UNCHANGED mgr

\* add_documents: collection.add(documents, metadatas, ids); what it raises is
\* not caught
add_documents(documents, metadatas, ids) ==
    /\ mgr # "none"
    /\ \E r \in EngineAdd(store[mgr], documents, metadatas, ids) :
           /\ store' = [store EXCEPT ![mgr] = r.coll]
           /\ iret' = [tag |-> r.tag, val |-> <<>>]
    /\ iop' = "add"
    /\ iarg' = AddCalled(store[mgr], documents, metadatas, ids)
    /\ UNCHANGED mgr

\* a bug that asks the engine for one result
QueryOne(query_texts, n_results) ==
    /\ mgr # "none"
    /\ iop' = "query"
    /\ iret' = EngineQuery(store[mgr], query_texts, 1)
    /\ iarg' = [lens |-> <<0, 0, 0>>, query_texts |-> query_texts,
                n_results |-> n_results]
    /\ UNCHANGED <<store, mgr>>

\* query_documents: collection.query(query_texts, n_results)
query_documents(query_texts, n_results) ==
    /\ mgr # "none"
    /\ iop' = "query"
    /\ iret' = EngineQuery(store[mgr], query_texts, n_results)
    /\ iarg' = [lens |-> <<0, 0, 0>>, query_texts |-> query_texts,
                n_results |-> n_results]
    /\ UNCHANGED <<store, mgr>>

Start == \E name \in CollectionNames : ManagerInit(name) /\ UNCHANGED storeVars
\* add_documents called with three sequences of one length, of every content
Add ==
    \E n \in 0..MaxBatch :
        \E documents \in [1..n -> Texts], metadatas \in [1..n -> Metas],
           ids \in [1..n -> Ids] :
            add_documents(documents, metadatas, ids) /\ UNCHANGED storeVars
\* add_documents called with sequences of every combination of unequal lengths
AddUnequal ==
    \E nd \in 0..MaxBatch, nm \in 0..MaxBatch, ni \in 0..MaxBatch :
        /\ nd # ni \/ nm # ni
        /\ add_documents([k \in 1..nd |-> 0], [k \in 1..nm |-> "finance"],
                         [k \in 1..ni |-> IF k = 1 THEN "doc0" ELSE "doc1"])
        /\ UNCHANGED storeVars
Query ==
    \E query_texts \in QueryTexts, n_results \in NResults :
        query_documents(query_texts, n_results) /\ UNCHANGED storeVars

NextIndex ==
    \/ Start
    \/ Add
    \/ AddUnequal
    \/ Query

SpecIndex == Init /\ [][NextIndex]_vars

----------------------------------------------------------------------------
(* Properties of the store, one call at a time *)

ReadOps == {"get_content", "get_path", "list", "exists"}

\* C1: when save_document(c, f) has returned, get_document_content(f) returns
\* exactly c, also when the file held other content before; and as long as no
\* delete removes it, reading any filename returns the content of the latest
\* save under its base name.
SaveThenGetRoundTrip ==
    /\ (op = "save" /\ ret.tag = "ok")
           => get_document_content(files, arg.filename) = Ok(arg.content)
    /\ \A f \in AnyFilename :
           PathName(f) \in DOMAIN latest
               => get_document_content(files, f) = Ok(latest[PathName(f)])

\* a save has overwritten a document that was there
OverwritingSaveDone ==
    /\ op = "save"
    /\ ret.tag = "ok"
    /\ touched.kind = "overwritten"
    /\ arg.content = <<2, 3>>

\* C2: whatever filename an operation is given, the only record it creates,
\* reads, overwrites or removes is the one named by the filename's base
\* component directly inside the root: the files outside the root stay as they
\* were, no file appears elsewhere, and save(c, "../../etc/passwd") writes the
\* root's record passwd.
PathSafety ==
    /\ \A p \in DOMAIN Outside : p \in DOMAIN files /\ files[p] = Outside[p]
    /\ \A p \in DOMAIN files : p \in DOMAIN Outside \/ InsideRoot(p)
    /\ touched.kind # "none" => InsideRoot(touched.path)
    /\ (op = "save" /\ arg.filename = Traversal)
           => /\ ret.tag = "ok"
              /\ touched.path = Append(base_path, passwd)
    /\ \A f \in AnyFilename :
           LET r == Resolve(_get_full_path(f))
           IN  \/ r \in Dirs
               \/ InsideRoot(r) /\ r[Len(r)] = PathName(f)

\* "../../etc/passwd" has been saved
TraversalSaved ==
    /\ op = "save"
    /\ arg.filename = Traversal
    /\ Append(base_path, passwd) \in DOMAIN files

SaveReturnsStoredName ==
    (op = "save" /\ ret.tag = "ok") => ret.val \in RootNames(files)

\* C10: for every filename, document_exists is true exactly when
\* get_document_content and get_document_path succeed, exactly when its base
\* component is listed; and the read operations leave the files as they were.
ViewsAgree ==
    \A f \in AnyFilename :
        /\ document_exists(files, f) <=> get_document_content(files, f).tag = "ok"
        /\ document_exists(files, f) <=> get_document_path(files, f).tag = "ok"
        /\ \A s \in Listings(files) :
               document_exists(files, f) <=> \E i \in 1..Len(s) : s[i] = PathName(f)

StoreViewsConsistent ==
    /\ ViewsAgree
    /\ op \in ReadOps => files = prior.files
    /\ op = "exists" => ret = Ok(document_exists(prior.files, arg.filename))
    /\ op = "get_content" => ret = get_document_content(prior.files, arg.filename)
    /\ op = "get_path" => ret = get_document_path(prior.files, arg.filename)
    /\ op = "list" => ret.val \in Listings(prior.files)

\* document_exists has answered True for a filename with a directory component
ExistsSaidTrue ==
    /\ op = "exists"
    /\ ret = Ok(TRUE)
    /\ arg.filename # PathName(arg.filename)

----------------------------------------------------------------------------
(* Properties of listing and of a save in progress *)

ListedNames == {ret.val[i] : i \in 1..Len(ret.val)}

\* C4 as stated: after the saves of N distinct filename strings into an empty
\* store, list_documents returns exactly those N strings.
ListIsSavedStrings ==
    op = "list" => /\ ListedNames = savedNames
                   /\ Len(ret.val) = Cardinality(savedNames)

\* C4, amended: after the saves of N distinct filename strings into an empty
\* store, list_documents returns, without duplicates, exactly the base
\* components of those strings; these are the N strings themselves when each
\* is its own base component.
ListIsSavedBaseNames ==
    op = "list" =>
        /\ ListedNames = {PathName(f) : f \in savedNames}
        /\ Len(ret.val) = Cardinality(ListedNames)
        /\ (\A f \in savedNames : PathName(f) = f)
               => /\ ListedNames = savedNames
                  /\ Len(ret.val) = Cardinality(savedNames)

\* two filenames have been saved, one with a directory component, and listed
ListedTwoSaved ==
    /\ op = "list"
    /\ Cardinality(savedNames) = 2
    /\ Len(ret.val) = 2
    /\ \E f \in savedNames : PathName(f) # f

\* C5: a reader of a document that is being saved, or whose save failed part-way,
\* finds what was there before the save (nothing, or the whole earlier content)
\* or the whole new content.
NeverPartiallyVisible ==
    (/\ wr.pc \in {"open", "failed"}
     /\ PathName(arg.filename) = PathName(wr.filename))
        => /\ op = "get_content"
                => ret \in {wr.old, Ok(wr.content), Raise("IOError")}
           /\ (op = "exists" /\ ret = Ok(TRUE))
                => get_document_content(files, arg.filename)
                       \in {wr.old, Ok(wr.content)}

----------------------------------------------------------------------------
(* Properties of the vector index *)

Unequal(lens) == lens[1] # lens[3] \/ lens[2] # lens[3]

\* what a query for one text returns from a collection
ResultOf(coll, q, n) == EngineQuery(coll, <<q>>, n).val[1]

\* C7: add_documents called with sequences of unequal length fails with
\* InvalidArgument and leaves the collection as it was: nothing is inserted and
\* every query returns what it returned before.
UnequalAddRejected ==
    [][(iop' = "add" /\ Unequal(iarg'.lens))
           => /\ iret'.tag = "InvalidArgument"
              /\ store' = store
              /\ \A q \in QueryTexts, n \in NResults :
                     EngineQuery(store'[mgr'], q, n) = EngineQuery(store[mgr], q, n)]_vars

\* 2 documents and metadatas with 1 id have been refused by a collection that
\* holds an entry
UnequalAddRefused ==
    /\ iop = "add"
    /\ iarg.lens = <<2, 2, 1>>
    /\ iret.tag = "InvalidArgument"
    /\ Len(store[mgr]) = 1

\* C8: constructing the manager again on a collection that exists leaves every
\* entry as it was, and a query after it finds every entry added before it.
ReopenKeepsEntries ==
    [][(iop' = "open" /\ mgr' \in DOMAIN store)
           => /\ store' = store
              /\ \A i \in 1..Len(store[mgr']) :
                     \E k \in 1..Len(store[mgr']) :
                         LET found == ResultOf(store'[mgr'], store[mgr'][i].document,
                                               Len(store[mgr']))
                         IN  /\ k <= Len(found)
                             /\ found[k].id = store[mgr'][i].id
                             /\ found[k].document = store[mgr'][i].document
                             /\ found[k].metadata = store[mgr'][i].metadata]_vars

\* the manager has been constructed on a collection that holds two entries
ReopenedWithEntries ==
    /\ iop = "open"
    /\ Len(store[mgr]) = 2

====
